---- MODULE Spec2Model ----
(***************************************************************************)
(* A model of the Linkd search client (LinkdAPI, linkd-api.ts).            *)
(*                                                                         *)
(* Streamed search: searchProfilesWebSocket builds a promise, a WebSocket, *)
(* a 30 s timer and four event handlers (open, message, error, close).     *)
(* The model has one action per handler; the server, the network and the   *)
(* clock are the environment, which chooses the events and their order.    *)
(*                                                                         *)
(* Synchronous search: searchProfiles issues one HTTP GET and maps the     *)
(* response, or falls into its catch block.                                *)
(*                                                                         *)
(* The console is the variable log: every console.log and console.error   *)
(* of the two searches appends the kind of its line.                       *)
(*                                                                         *)
(* Left out: the query text, filters and sort options, and the streamed    *)
(* result's queryExecutionTime (a clock reading).                          *)
(***************************************************************************)
EXTENDS Integers, Sequences, FiniteSets, TLC

VARIABLES
    options,        \* the LinkdSearchOptions of the streamed call: maxResults, {} when not given
    wsReadyState,   \* the socket: "NONE" before new WebSocket, then CONNECTING/OPEN/CLOSING/CLOSED
    wsError,        \* {} or {e}: the error the socket's 'error' event carried
    timeoutId,      \* the timer of setTimeout: "unset", "armed", "fired", "cleared"
    profiles,       \* the closure's profiles array
    totalCount,     \* the closure's totalCount
    promise,        \* the promise searchProfilesWebSocket returns
    closeCalls,     \* how many times ws.close() was invoked
    sent,           \* the messages ws.send() was given, in order
    received,       \* the frames the 'message' event delivered, in order
    sync,           \* the synchronous searchProfiles call
    log,            \* the console: the kinds of the lines written, in order
    other,          \* the closure of a second streamed search on the same client
    sub,            \* the call of getProfileDetails / findMutualConnections / requestIntroduction
    net,            \* the call of the bruin-networking-super-tool handler
    alum,           \* the call of an alumni tool handler
    startup,        \* the Startup_Sequence component, the clock and the taps made
    professors,     \* the professor table and the get-professor-data handler's call
    invite          \* the call of the send-linkedin-invite handler

streamVars == <<options, wsReadyState, wsError, timeoutId, profiles, totalCount,
                promise, closeCalls, sent, received>>
\* The state of the services built around the client.
toolVars == <<net, alum, startup, professors, invite>>

\* The state of the Linkd client.
linkdVars == <<streamVars, sync, log, other, sub>>

vars == <<linkdVars, toolVars>>

\* What the networking handler leaves alone, and what the alumni tools do.
netRest == <<linkdVars, alum, startup, professors, invite>>

alumRest == <<linkdVars, net, startup, professors, invite>>

startupRest == <<linkdVars, net, alum, professors, invite>>

profRest == <<linkdVars, net, alum, startup, invite>>

inviteRest == <<linkdVars, net, alum, startup, professors>>

(***************************************************************************)
(* Bounds and the environment's alphabet.                                  *)
(***************************************************************************)
\* The number of frames the server sends on one channel.
MaxMsgs == 3

\* The default limit: options.maxResults || 10.
DefaultLimit == 10

\* maxResults as the caller gives it: {} is "not given".
MaxResultsChoices == {{}, {1}}

\* The results arrays a `result` frame may carry.
Batches == {<<>>, <<"p1">>, <<"p2", "p3">>}

\* total_count as the server gives it: {} is "absent".
TotalCounts == {{}, {0}, {1}}

\* The message texts of the server's `error` frames.
ErrorTexts == {"quota exceeded", "bad query"}

\* The errors the socket's 'error' event may carry.
SocketErrors == {"ECONNREFUSED", "closed before the connection was established"}

\* A frame: the text of one inbound WebSocket message. parses says whether
\* JSON.parse accepts it; the other fields are those of the parsed object, an
\* absent field being {} and a present one {value}.
Frame(parses, type, hasData, results, total_count, message) ==
    [parses |-> parses, type |-> type, hasData |-> hasData,
     results |-> results, total_count |-> total_count, message |-> message]

ResultFrames ==
    {Frame(TRUE, "result", TRUE, {b}, tc, {}) : b \in Batches, tc \in TotalCounts}

CompleteFrame == Frame(TRUE, "complete", FALSE, {}, {}, {})

ErrorFrames == {Frame(TRUE, "error", TRUE, {}, {}, {t}) : t \in ErrorTexts}

\* Not JSON at all.
InvalidJsonFrame == Frame(FALSE, "", FALSE, {}, {}, {})
\* {"type":"result","data":{}}: data without results.
ResultNoResultsFrame == Frame(TRUE, "result", TRUE, {}, {}, {})
\* {"type":"error"}: no data object.
ErrorNoDataFrame == Frame(TRUE, "error", FALSE, {}, {}, {})

MalformedFrames == {InvalidJsonFrame, ResultNoResultsFrame, ErrorNoDataFrame}

Frames == ResultFrames \cup {CompleteFrame} \cup ErrorFrames \cup MalformedFrames

(***************************************************************************)
(* JavaScript pieces.                                                      *)
(***************************************************************************)
\* The one element of a singleton {v}.
The(s) == CHOOSE v \in s : TRUE

\* `field || fallback` on a number: absent and 0 are both falsy.
OrElse(field, fallback) ==
    IF field = {} \/ field = {0} THEN fallback ELSE The(field)

\* options.maxResults || 10
Limit(maxResults) == OrElse(maxResults, DefaultLimit)

Pending == [state |-> "pending", by |-> "none", profilesSeen |-> <<>>,
            totalCount |-> 0, reason |-> ""]

NoPromise == [state |-> "none", by |-> "none", profilesSeen |-> <<>>,
              totalCount |-> 0, reason |-> ""]

\* resolve(value) / reject(reason): the first settlement wins, later calls do
\* nothing. by names the handler that settled; profilesSeen is the content of
\* value.profiles at the moment of the call.
Resolve(p, by, profs, total) ==
    IF p.state = "pending"
    THEN [state |-> "resolved", by |-> by, profilesSeen |-> profs,
          totalCount |-> total, reason |-> ""]
    ELSE p

Reject(p, by, reason) ==
    IF p.state = "pending"
    THEN [state |-> "rejected", by |-> by, profilesSeen |-> <<>>,
          totalCount |-> 0, reason |-> reason]
    ELSE p

\* clearTimeout(timeoutId): cancels a timer that has not fired yet.
ClearTimeout(t) == IF t = "armed" THEN "cleared" ELSE t

\* ws.close(): starts the closing handshake of a socket that is connecting or
\* open, and does nothing to one that is closing or closed.
ReadyStateAfterClose(rs) ==
    IF rs \in {"CONNECTING", "OPEN"} THEN "CLOSING" ELSE rs

(***************************************************************************)
(* searchProfilesWebSocket                                                 *)
(***************************************************************************)
StreamInit ==
    /\ options = [maxResults |-> {}]
    /\ wsReadyState = "NONE"
    /\ wsError = {}
    /\ timeoutId = "unset"
    /\ profiles = <<>>
    /\ totalCount = 0
    /\ promise = NoPromise
    /\ closeCalls = 0
    /\ sent = <<>>
    /\ received = <<>>

\* The call itself: new Promise, new WebSocket, the closure's variables, setTimeout.
SearchProfilesWebSocket(maxResults) ==
    /\ wsReadyState = "NONE"
    /\ options' = [maxResults |-> maxResults]
    /\ wsReadyState' = "CONNECTING"
    /\ timeoutId' = "armed"
    /\ profiles' = <<>>
    /\ totalCount' = 0
    /\ promise' = Pending
    /\ log' = log \o <<"ws_start", "ws_connecting">>
    /\ UNCHANGED <<wsError, closeCalls, sent, received, sync, other, sub, toolVars>>

\* The query message of ws.on('open').
QueryMessage(opts) ==
    [type |-> "query", data |-> [limit |-> Limit(opts.maxResults)],
     apiKey |-> "this.apiKey"]

\* An 'open' handler that sends its query twice.
OnOpenSendingTwice ==
    /\ wsReadyState = "CONNECTING"
    /\ wsReadyState' = "OPEN"
    /\ sent' = sent \o <<QueryMessage(options), QueryMessage(options)>>
    /\ log' = Append(log, "ws_open")
    /\ UNCHANGED <<options, wsError, timeoutId, profiles, totalCount, promise,
                   closeCalls, received, sync, other, sub, toolVars>>

\* ws.on('open')
OnOpen ==
    /\ wsReadyState = "CONNECTING"
    /\ wsReadyState' = "OPEN"
    /\ sent' = Append(sent, QueryMessage(options))
    /\ log' = Append(log, "ws_open")
    /\ UNCHANGED <<options, wsError, timeoutId, profiles, totalCount, promise,
                   closeCalls, received, sync, other, sub, toolVars>>

\* The timer's callback: ws.close(), then resolve with what was accumulated.
TimeoutValueTotal(profs, total) == Len(profs)

OnTimeout ==
    /\ timeoutId = "armed"
    /\ timeoutId' = "fired"
    /\ log' = Append(log, "ws_timeout")
    /\ closeCalls' = closeCalls + 1
    /\ wsReadyState' = ReadyStateAfterClose(wsReadyState)
    /\ promise' = Resolve(promise, "timeout", profiles,
                          TimeoutValueTotal(profiles, totalCount))
    /\ UNCHANGED <<options, wsError, profiles, totalCount, sent, received, sync, other, sub, toolVars>>

\* A push that keeps only the latest frame's results.
PushResultsReplacing(profs, results) == results

\* The `result` branch: profiles.push(...message.data.results).
PushResults(profs, results) == profs \o results

\* totalCount = message.data.total_count || profiles.length
RunningTotal(total_count, profs) == OrElse(total_count, Len(profs))

\* Whether the `result` branch throws: message.data.results of a missing data
\* object, or the spread of an undefined results.
ResultThrows(m) == ~m.hasData \/ m.results = {}

\* A rejection that carries a text of the client's own.
ErrorMessageGeneric(m) == "WebSocket error"

\* new Error(message.data.message).message: the text, "" for an undefined one.
ErrorMessage(m) == IF m.message = {} THEN "" ELSE The(m.message)

\* The `complete` branch's resolve.
CompleteValueTotal(profs, total) == total

\* A message handler whose catch swallows the error without a line.
MessageLogSilentCatch(m) ==
    IF ~m.parses THEN <<>>
    ELSE IF m.type = "complete" THEN <<"ws_frame", "ws_completed">>
    ELSE IF m.type = "error" /\ m.hasData THEN <<"ws_frame", "ws_server_error">>
    ELSE <<"ws_frame">>

\* The lines one frame makes ws.on('message') write: the frame's type once
\* it has parsed, then the line of its branch; a throw anywhere in the try
\* block ends in the catch's line.
MessageLog(m) ==
    IF ~m.parses THEN <<"ws_parse_error">>
    ELSE IF m.type = "result"
    THEN IF ResultThrows(m) THEN <<"ws_frame", "ws_parse_error">> ELSE <<"ws_frame">>
    ELSE IF m.type = "complete" THEN <<"ws_frame", "ws_completed">>
    ELSE IF m.type = "error"
    THEN IF m.hasData THEN <<"ws_frame", "ws_server_error">>
         ELSE <<"ws_frame", "ws_parse_error">>
    ELSE <<"ws_frame">>

\* Whether the socket ever opened: the 'open' handler has sent the query.
Opened == sent # <<>>

\* ws.on('message'), the body of its try block and its catch. A socket that
\* opened delivers frames until it fails or is closed, also while its closing
\* handshake is under way.
OnMessage(m) ==
    /\ wsReadyState \in {"OPEN", "CLOSING"}
    /\ Opened
    /\ wsError = {}
    /\ Len(received) < MaxMsgs
    /\ received' = Append(received, m)
    /\ log' = log \o MessageLog(m)
    /\ IF ~m.parses
       THEN \* JSON.parse throws: caught and logged.
            UNCHANGED <<profiles, totalCount, timeoutId, closeCalls,
                        wsReadyState, promise>>
       ELSE CASE m.type = "result" ->
                 /\ IF ResultThrows(m)
                    THEN UNCHANGED <<profiles, totalCount>>
                    ELSE /\ profiles' = PushResults(profiles, The(m.results))
                         /\ totalCount' = RunningTotal(m.total_count, profiles')
                 /\ UNCHANGED <<timeoutId, closeCalls, wsReadyState, promise>>
              [] m.type = "complete" ->
                 /\ timeoutId' = ClearTimeout(timeoutId)
                 /\ closeCalls' = closeCalls + 1
                 /\ wsReadyState' = ReadyStateAfterClose(wsReadyState)
                 /\ promise' = Resolve(promise, "complete", profiles,
                                       CompleteValueTotal(profiles, totalCount))
                 /\ UNCHANGED <<profiles, totalCount>>
              [] m.type = "error" ->
                 /\ timeoutId' = ClearTimeout(timeoutId)
                 /\ closeCalls' = closeCalls + 1
                 /\ wsReadyState' = ReadyStateAfterClose(wsReadyState)
                 /\ promise' = IF m.hasData
                               THEN Reject(promise, "errormsg", ErrorMessage(m))
                               ELSE promise  \* message.data.message throws first
                 /\ UNCHANGED <<profiles, totalCount>>
              [] OTHER ->
                 UNCHANGED <<profiles, totalCount, timeoutId, closeCalls,
                             wsReadyState, promise>>
    /\ UNCHANGED <<options, wsError, sent, sync, other, sub, toolVars>>

\* A socket error handled as searchProfiles handles its failures: an empty result.
ErrorOutcomeEmptyResult(p, e) == Resolve(p, "socketerror", <<>>, 0)

\* What ws.on('error') does to the promise.
ErrorOutcome(p, e) == Reject(p, "socketerror", e)

\* ws.on('error'): the socket fails; it delivers no further message.
OnError(e) ==
    /\ wsReadyState \in {"CONNECTING", "OPEN", "CLOSING"}
    /\ wsError = {}
    /\ wsError' = {e}
    /\ log' = Append(log, "ws_socket_error")
    /\ wsReadyState' = "CLOSING"
    /\ timeoutId' = ClearTimeout(timeoutId)
    /\ promise' = ErrorOutcome(promise, e)
    /\ UNCHANGED <<options, profiles, totalCount, closeCalls, sent, received, sync, other, sub, toolVars>>

\* ws.on('close'): the connection is gone, by either side's doing. A socket
\* that never opened emits 'error' before 'close'.
OnClose ==
    /\ wsReadyState \in {"OPEN", "CLOSING"}
    /\ Opened \/ wsError # {}
    /\ wsReadyState' = "CLOSED"
    /\ log' = Append(log, "ws_closed")
    /\ timeoutId' = ClearTimeout(timeoutId)
    /\ UNCHANGED <<options, wsError, profiles, totalCount, promise, closeCalls,
                   sent, received, sync, other, sub, toolVars>>

\* The SearchResult the caller holds once the promise has resolved: its
\* profiles field is the closure's array itself, not a copy.
ResolvedValue == [profiles |-> profiles, totalCount |-> promise.totalCount]

(***************************************************************************)
(* searchProfiles                                                          *)
(***************************************************************************)
\* The number of searchProfiles calls made one after the other.
MaxCalls == 2

\* total_count and execution_time as the HTTP payload gives them.
SyncTotalCounts == {{}, {0}, {1}, {5}}

ExecutionTimes == {{}, {0}, {2}}

\* The status codes of a failed HTTP response.
ErrorStatuses == {401, 500}

\* What axios.get ends with. kind "ok" is a 2xx response whose data is body:
\* a JSON object ("object", with its fields), null ("null") or text that is
\* not JSON ("text"). The other kinds make axios.get throw.
Response(kind, status, body, results, total_count, execution_time) ==
    [kind |-> kind, status |-> status, body |-> body, results |-> results,
     total_count |-> total_count, execution_time |-> execution_time]

ObjectResponses ==
    {Response("ok", 200, "object", r, tc, et) :
        r \in {{}} \cup {{b} : b \in Batches}, tc \in SyncTotalCounts,
        et \in ExecutionTimes}

NonObjectResponses ==
    {Response("ok", 200, b, {}, {}, {}) : b \in {"null", "text"}}

FailedResponses ==
    {Response("http_error", st, "null", {}, {}, {}) : st \in ErrorStatuses}
    \cup {Response(k, 0, "null", {}, {}, {}) : k \in {"network", "timeout"}}

Responses == ObjectResponses \cup NonObjectResponses \cup FailedResponses

EmptyResult == [profiles |-> <<>>, totalCount |-> 0, queryExecutionTime |-> 0]

\* The try block. threw: axios.get threw, or the mapping of response.data
\* raised a TypeError (a field of null, or .length of an undefined results).
TryBlock(resp) ==
    IF resp.kind # "ok" \/ resp.body = "null"
    THEN [threw |-> TRUE, value |-> EmptyResult]
    ELSE IF resp.results = {} /\ (resp.total_count = {} \/ resp.total_count = {0})
    THEN [threw |-> TRUE, value |-> EmptyResult]
    ELSE [threw |-> FALSE,
          value |-> [profiles |-> IF resp.results = {} THEN <<>>
                                  ELSE The(resp.results),
                     totalCount |->
                         IF resp.total_count = {} \/ resp.total_count = {0}
                         THEN Len(The(resp.results))
                         ELSE The(resp.total_count),
                     queryExecutionTime |-> OrElse(resp.execution_time, 0)]]

\* A catch block that logs and throws the error on.
CatchRethrows == [outcome |-> "threw", value |-> EmptyResult]

\* The catch block: handleApiError logs, then the empty result is returned.
CatchBlock == [outcome |-> "returned", value |-> EmptyResult]

\* A searchProfiles that throws on a 401 and on a payload that is no object.
SearchProfilesOutcomeSurfacing(resp) ==
    IF TryBlock(resp).threw
    THEN IF (resp.kind = "http_error" /\ resp.status = 401)
            \/ (resp.kind = "ok" /\ resp.body # "object")
         THEN CatchRethrows
         ELSE CatchBlock
    ELSE [outcome |-> "returned", value |-> TryBlock(resp).value]

\* What the call ends with for its caller: a returned value or a thrown error.
SearchProfilesOutcome(resp) ==
    IF TryBlock(resp).threw
    THEN CatchBlock
    ELSE [outcome |-> "returned", value |-> TryBlock(resp).value]

\* A handleApiError that writes the authentication line for every HTTP error.
HandleApiErrorAnyStatus(resp) ==
    IF resp.kind # "ok"
    THEN IF resp.kind = "http_error"
         THEN <<"api_error", "auth_failed">>
         ELSE <<"api_error">>
    ELSE <<"unexpected_error">>

\* handleApiError: the line of an axios error, with the authentication line
\* after it for a 401, or the line of any other error.
HandleApiError(resp) ==
    IF resp.kind # "ok"
    THEN IF resp.kind = "http_error" /\ resp.status = 401
         THEN <<"api_error", "auth_failed">>
         ELSE <<"api_error">>
    ELSE <<"unexpected_error">>

\* The lines searchProfiles writes after its await.
SettleLog(resp) ==
    IF TryBlock(resp).threw THEN HandleApiError(resp) ELSE <<"found">>

NoResponse == Response("none", 0, "null", {}, {}, {})

SyncInit ==
    sync = [pc |-> "idle", calls |-> 0, requests |-> 0, maxResults |-> {},
            response |-> NoResponse, outcome |-> "none", value |-> EmptyResult]

\* searchProfiles up to its await: the GET is sent.
SearchProfilesCall(maxResults) ==
    /\ sync.pc \in {"idle", "returned"}
    /\ sync.calls < MaxCalls
    /\ sync' = [pc |-> "awaiting", calls |-> sync.calls + 1,
                requests |-> sync.requests + 1, maxResults |-> maxResults,
                response |-> NoResponse, outcome |-> "none",
                value |-> EmptyResult]
    /\ log' = Append(log, "request")
    /\ UNCHANGED <<streamVars, other, sub, toolVars>>

\* A searchProfiles that sends the GET once more after a first failure.
SearchProfilesSettleRetrying(resp) ==
    /\ sync.pc = "awaiting"
    /\ IF TryBlock(resp).threw /\ sync.requests = sync.calls
       THEN /\ sync' = [sync EXCEPT !.requests = @ + 1]
            /\ log' = Append(log, "request")
       ELSE /\ sync' = [sync EXCEPT !.pc = "returned",
                                    !.response = resp,
                                    !.outcome = SearchProfilesOutcome(resp).outcome,
                                    !.value = SearchProfilesOutcome(resp).value]
            /\ log' = log \o SettleLog(resp)
    /\ UNCHANGED <<streamVars, other, sub, toolVars>>

\* The rest of searchProfiles, once axios.get has ended with resp.
SearchProfilesSettle(resp) ==
    /\ sync.pc = "awaiting"
    /\ sync' = [sync EXCEPT !.pc = "returned",
                            !.response = resp,
                            !.outcome = SearchProfilesOutcome(resp).outcome,
                            !.value = SearchProfilesOutcome(resp).value]
    /\ log' = log \o SettleLog(resp)
    /\ UNCHANGED <<streamVars, other, sub, toolVars>>

(***************************************************************************)
(* getProfileDetails, findMutualConnections, requestIntroduction           *)
(***************************************************************************)
\* The number of calls made one after the other.
MaxSubCalls == 2

SubOps == {"getProfileDetails", "findMutualConnections", "requestIntroduction"}

\* The field of response.data each operation returns.
PayloadField(op) ==
    CASE op = "getProfileDetails" -> "profile"
      [] op = "findMutualConnections" -> "connections"
      [] op = "requestIntroduction" -> "success"

\* The JSON values the field may hold, as their text; "undefined" is a field
\* that is not there.
Payloads(op) ==
    CASE op = "getProfileDetails" -> {"undefined", "{id: a}"}
      [] op = "findMutualConnections" -> {"undefined", "[]", "[n1]", "[n1, n2]"}
      [] op = "requestIntroduction" -> {"undefined", "true", "false"}

Falsy(v) == v \in {"undefined", "null", "false", "0", ""}

\* v || d
OrDefault(v, d) == IF Falsy(v) THEN d ELSE v

\* The value after `||` and the value the catch block returns.
SafeDefault(op) ==
    CASE op = "getProfileDetails" -> "null"
      [] op = "findMutualConnections" -> "[]"
      [] op = "requestIntroduction" -> "false"

\* What axios.get / axios.post ends with: kind, status and body as for
\* searchProfiles, payload the field of the body the operation reads.
SubResponse(kind, status, body, payload) ==
    [kind |-> kind, status |-> status, body |-> body, payload |-> payload]

SubResponses(op) ==
    {SubResponse("ok", 200, "object", v) : v \in Payloads(op)}
    \cup {SubResponse("ok", 200, b, "undefined") : b \in {"null", "text"}}
    \cup {SubResponse("http_error", st, "null", "undefined") : st \in ErrorStatuses}
    \cup {SubResponse(k, 0, "null", "undefined") : k \in {"network", "timeout"}}

NoSubResponse == SubResponse("none", 0, "null", "undefined")

\* Whether the try block throws: the request failed, or response.data is
\* null and reading its field raises a TypeError. A field of a string is
\* undefined and raises nothing.
SubThrows(resp) == resp.kind # "ok" \/ resp.body = "null"

\* An operation whose catch block hands the failure to the caller.
SubOutcomeSurfacing(op, resp) ==
    IF SubThrows(resp)
    THEN [outcome |-> "threw", value |-> "undefined"]
    ELSE [outcome |-> "returned",
          value |-> OrDefault(resp.payload, SafeDefault(op))]

\* try { ... return response.data.<field> || default } catch { return default }
SubOutcome(op, resp) ==
    IF SubThrows(resp)
    THEN [outcome |-> "returned", value |-> SafeDefault(op)]
    ELSE [outcome |-> "returned",
          value |-> OrDefault(resp.payload, SafeDefault(op))]

\* The lines written after the await.
SubSettleLog(resp) ==
    IF SubThrows(resp) THEN HandleApiError(resp) ELSE <<"sub_done">>

SubInit ==
    sub = [pc |-> "idle", op |-> "none", calls |-> 0, requests |-> 0,
           response |-> NoSubResponse, outcome |-> "none", value |-> "undefined"]

\* The operation up to its await: the request is sent.
SubCall(op) ==
    /\ sub.pc \in {"idle", "returned"}
    /\ sub.calls < MaxSubCalls
    /\ sub' = [pc |-> "awaiting", op |-> op, calls |-> sub.calls + 1,
               requests |-> sub.requests + 1, response |-> NoSubResponse,
               outcome |-> "none", value |-> "undefined"]
    /\ log' = Append(log, "sub_request")
    /\ UNCHANGED <<streamVars, sync, other, toolVars>>

\* The rest of the operation, once the request has ended with resp.
SubSettle(resp) ==
    /\ sub.pc = "awaiting"
    /\ sub' = [sub EXCEPT !.pc = "returned",
                          !.response = resp,
                          !.outcome = SubOutcome(sub.op, resp).outcome,
                          !.value = SubOutcome(sub.op, resp).value]
    /\ log' = log \o SubSettleLog(resp)
    /\ UNCHANGED <<streamVars, sync, other, toolVars>>

(***************************************************************************)
(* networking: searchUsers and the bruin-networking-super-tool handler     *)
(***************************************************************************)
\* The number of handler calls made one after the other.
MaxNetCalls == 2

\* zod's default for input.limit.
DefaultNetLimit == 5

NetActions == {"recommendations", "ask_alum", "connect_bruins", "other"}

\* The handler's input: an optional field is {} when it is not given.
NetInputs ==
    [action : NetActions,
     query : {{}, {""}, {"ml alumni"}},
     question : {{}, {"how to start?"}},
     studentProfile : {{}, {[major |-> "cs", interests |-> <<"ai">>]}},
     interests : {{}, {<<>>}, {<<"ai", "hiking">>}}]

\* A UserResult: the profile's name and the company of its first experience,
\* {} when it has none.
User(name, company) == [name |-> name, company |-> company]

Users == <<User("u1", {"acme"}), User("u2", {}), User("u3", {"ucla"})>>

\* The results of a 2xx answer: {} when the body has no results array.
ResultLists ==
    {{}, {<<>>}, {<<Users[1]>>}, {<<Users[1], Users[2]>>},
     {<<Users[3], Users[2], Users[1]>>}}

\* The body of an error response: present says whether error.response.data
\* is truthy; error, detail and message are its fields.
ErrorBody(present, error, detail, message) ==
    [present |-> present, error |-> error, detail |-> detail,
     message |-> message]

NoBody == ErrorBody(FALSE, {}, {}, {})

ErrorBodies ==
    {NoBody} \cup
    {ErrorBody(TRUE, e, d, m) :
        e \in {{}, {""}, {"index down"}}, d \in {{}, {"bad school"}},
        m \in {{}, {"try later"}}}

\* What api.get ends with.
NetResponse(kind, status, results, body) ==
    [kind |-> kind, status |-> status, results |-> results, body |-> body]

NetResponses ==
    {NetResponse("ok", 200, r, NoBody) : r \in ResultLists}
    \cup {NetResponse("http_error", st, {}, b) :
             st \in {401, 500}, b \in ErrorBodies}
    \cup {NetResponse("network", 0, {}, NoBody)}

NoNetResponse == NetResponse("none", 0, {}, NoBody)

\* a || b for strings held as {} (undefined) or {text}.
OrText(a, b) == IF a = {} \/ a = {""} THEN b ELSE a

\* error || detail || message || JSON.stringify(data)
ErrorBodyText(b) ==
    The(OrText(b.error, OrText(b.detail, OrText(b.message, {"JSON.stringify(data)"}))))

GenericFailure == "Failed to perform search. Please check your connection and try again."

\* searchUsers: the response's data, or the Error its catch block throws.
SearchUsers(resp) ==
    IF resp.kind = "ok"
    THEN [threw |-> FALSE, message |-> "", results |-> resp.results]
    ELSE [threw |-> TRUE,
          message |-> IF resp.kind = "http_error" /\ resp.status = 401
                      THEN "Invalid or expired API key"
                      ELSE IF resp.kind = "http_error" /\ resp.body.present
                      THEN ErrorBodyText(resp.body)
                      ELSE GenericFailure,
          results |-> {}]

\* The data of a DainResponse: every field optional.
NetData(recommendations, matchedAlum, questionSent, matchedBruins) ==
    [recommendations |-> recommendations, matchedAlum |-> matchedAlum,
     questionSent |-> questionSent, matchedBruins |-> matchedBruins]

EmptyData == NetData({}, {}, {}, {})

ErrorText == "Sorry, there was an error processing your request"

\* The DainResponse of the catch block.
\* A handler whose catch block hands the Error on to its caller.
ErrorResponseRethrown(message) ==
    [outcome |-> "threw", text |-> message, data |-> EmptyData,
     detail |-> message]

\* The DainResponse of the catch block; detail is the Error's message, shown
\* in the card.
ErrorResponse(message) ==
    [outcome |-> "returned", text |-> ErrorText, data |-> EmptyData,
     detail |-> message]

SuccessResponse(text, data) ==
    [outcome |-> "returned", text |-> text, data |-> data, detail |-> ""]

NoNetValue == [outcome |-> "none", text |-> "", data |-> EmptyData, detail |-> ""]

\* experience[0]?.company_name || 'N/A'
Company(u) == The(OrText(u.company, {"N/A"}))

\* A handler that searches for recommendations whatever the query.
RequiredFieldsSkippingQuery(input) ==
    CASE input.action = "recommendations" -> {}
      [] input.action = "ask_alum" ->
             IF input.question = {} \/ input.studentProfile = {}
             THEN {"Question and student profile are required for asking an alum"}
             ELSE {}
      [] input.action = "connect_bruins" ->
             IF input.interests = {}
             THEN {"Interests are required for connecting Bruins"} ELSE {}
      [] OTHER -> {"Invalid action specified"}

\* The check at the head of each case: the Error thrown, {} when it passes.
RequiredFields(input) ==
    CASE input.action = "recommendations" ->
             IF input.query = {} \/ input.query = {""}
             THEN {"Query is required for recommendations"} ELSE {}
      [] input.action = "ask_alum" ->
             IF input.question = {} \/ input.studentProfile = {}
             THEN {"Question and student profile are required for asking an alum"}
             ELSE {}
      [] input.action = "connect_bruins" ->
             IF input.interests = {}
             THEN {"Interests are required for connecting Bruins"} ELSE {}
      [] OTHER -> {"Invalid action specified"}

\* The SearchParams limit of each case.
SearchLimit(input) ==
    CASE input.action = "recommendations" -> DefaultNetLimit
      [] input.action = "ask_alum" -> 1
      [] input.action = "connect_bruins" -> 2

Recommendations(results) ==
    [i \in 1..Len(results) |->
        [name |-> results[i].name, company |-> Company(results[i])]]

MatchedAlum(results) ==
    [name |-> results[1].name, company |-> Company(results[1])]

\* A match that takes the last two results.
MatchedBruinsLastTwo(results, interests) ==
    [i \in 1..2 |->
        [name |-> results[Len(results) - 2 + i].name, interests |-> interests]]

\* results.slice(0, 2).map(...)
MatchedBruins(results, interests) ==
    [i \in 1..2 |-> [name |-> results[i].name, interests |-> interests]]

\* The handler from the return of searchUsers on. A body without a results
\* array makes response.results.map / .length raise a TypeError.
HandlerAfterSearch(input, su) ==
    IF su.threw THEN ErrorResponse(su.message)
    ELSE IF su.results = {}
    THEN ErrorResponse("Cannot read properties of undefined")
    ELSE LET results == The(su.results) IN
         CASE input.action = "recommendations" ->
                  SuccessResponse("Here are recommendations",
                      NetData({Recommendations(results)}, {}, {}, {}))
           [] input.action = "ask_alum" ->
                  IF Len(results) = 0
                  THEN ErrorResponse("No matching alumni found")
                  ELSE SuccessResponse("Successfully matched with an alum and sent your question.",
                           NetData({}, {MatchedAlum(results)}, {TRUE}, {}))
           [] input.action = "connect_bruins" ->
                  IF Len(results) < 2
                  THEN ErrorResponse("Not enough matching Bruins found")
                  ELSE SuccessResponse("Successfully matched two Bruins based on shared interests.",
                           NetData({}, {}, {},
                               {MatchedBruins(results, The(input.interests))}))

NoSearch == [threw |-> FALSE, message |-> "", results |-> {}]

NetInit ==
    net = [pc |-> "idle", calls |-> 0, requests |-> 0, searches |-> 0,
           input |-> [action |-> "other", query |-> {}, question |-> {},
                      studentProfile |-> {}, interests |-> {}],
           limit |-> 0, response |-> NoNetResponse, search |-> NoSearch,
           value |-> NoNetValue]


\* A searchUsers that asks again after a failed request.
NetSettleRetrying(resp) ==
    /\ net.pc = "awaiting"
    /\ net' = [net EXCEPT !.pc = "returned",
                          !.requests = IF resp.kind = "ok" THEN @ ELSE @ + 1,
                          !.response = resp,
                          !.search = SearchUsers(resp),
                          !.value = HandlerAfterSearch(net.input, SearchUsers(resp))]
    /\ UNCHANGED netRest

\* The handler up to its first await: the check of the fields, which ends
\* the call in the catch block, or the call of searchUsers up to api.get.
NetCall(input) ==
    /\ net.pc \in {"idle", "returned"}
    /\ net.calls < MaxNetCalls
    /\ IF RequiredFields(input) # {}
       THEN net' = [net EXCEPT !.pc = "returned",
                               !.calls = @ + 1,
                               !.input = input,
                               !.limit = 0,
                               !.response = NoNetResponse,
                               !.search = NoSearch,
                               !.value = ErrorResponse(The(RequiredFields(input)))]
       ELSE net' = [net EXCEPT !.pc = "awaiting",
                               !.calls = @ + 1,
                               !.searches = @ + 1,
                               !.requests = @ + 1,
                               !.input = input,
                               !.limit = SearchLimit(input),
                               !.response = NoNetResponse,
                               !.search = NoSearch,
                               !.value = NoNetValue]
    /\ UNCHANGED netRest

\* The rest of searchUsers and of the handler, once api.get ended with resp.
NetSettle(resp) ==
    /\ net.pc = "awaiting"
    /\ net' = [net EXCEPT !.pc = "returned",
                          !.response = resp,
                          !.search = SearchUsers(resp),
                          !.value = HandlerAfterSearch(net.input, SearchUsers(resp))]
    /\ UNCHANGED netRest

(***************************************************************************)
(* The alumni tools: recommend-alumni, generate-warm-intro, ask-alum,      *)
(* bruin-icebreaker                                                        *)
(***************************************************************************)
\* The number of handler calls made one after the other.
MaxAlumCalls == 2

AlumTools ==
    {"recommend-alumni", "generate-warm-intro", "ask-alum", "bruin-icebreaker"}

\* A profile as the server sends it: the fields of LinkdProfileData, of which
\* the name stands for all, and mutualConnections, which LinkdProfileData
\* does not have: {} unless the server adds it.
ServerProfile(name, mutualConnections) ==
    [name |-> name, mutualConnections |-> mutualConnections]

ServerProfiles ==
    {ServerProfile("s1", {}), ServerProfile("s2", {<<"Alex Chen">>}),
     ServerProfile("s3", {<<>>})}

\* The three hard-coded profiles of each handler; those of
\* generate-warm-intro have mutualConnections.
MockProfiles(tool) ==
    CASE tool = "recommend-alumni" ->
             <<ServerProfile("Sarah Johnson", {}), ServerProfile("Michael Chen", {}),
               ServerProfile("Jessica Rivera", {})>>
      [] tool = "generate-warm-intro" ->
             <<ServerProfile("David Kim", {<<"Alex Chen", "Maya Johnson">>}),
               ServerProfile("Emily Wong", {<<"Taylor Smith">>}),
               ServerProfile("Juan Ramirez", {<<>>})>>
      [] tool = "ask-alum" ->
             <<ServerProfile("Sophia Lee", {}), ServerProfile("Jamal Wilson", {}),
               ServerProfile("Priya Patel", {})>>
      [] tool = "bruin-icebreaker" ->
             <<ServerProfile("Alex Thompson", {}), ServerProfile("Zoe Garcia", {}),
               ServerProfile("Ryan Park", {})>>

\* How `await linkdAPI.searchProfilesWebSocket(...)` ends: resolved with the
\* profiles accumulated, or rejected.
SearchOutcome(state, profs) == [state |-> state, profiles |-> profs]

SearchOutcomes ==
    {SearchOutcome("resolved", <<>>)}
    \cup {SearchOutcome("resolved", <<a>>) : a \in ServerProfiles}
    \cup {SearchOutcome("resolved", <<a, b>>) : a, b \in ServerProfiles}
    \cup {SearchOutcome("rejected", <<>>)}

NoSearchOutcome == SearchOutcome("none", <<>>)

\* searchResult.profiles.length > 0 ? searchResult.profiles : [mock data]
MockResults(tool, so) ==
    IF Len(so.profiles) > 0 THEN so.profiles ELSE MockProfiles(tool)

\* Whether the mapping of the profiles to the output throws: the table of
\* generate-warm-intro calls join on every profile's mutualConnections.
MapThrows(tool, profs) ==
    /\ tool = "generate-warm-intro"
    /\ \E i \in 1..Len(profs) : profs[i].mutualConnections = {}

Names(profs) == [i \in 1..Len(profs) |-> profs[i].name]

AlumValue(outcome, failed, list, mock) ==
    [outcome |-> outcome, failed |-> failed, list |-> list, mock |-> mock]

\* The handler from the await on: the try block's return, or the catch
\* block's, which has the error text and an empty list.
AlumHandler(tool, so) ==
    IF so.state = "rejected" \/ MapThrows(tool, MockResults(tool, so))
    THEN AlumValue("returned", TRUE, <<>>, FALSE)
    ELSE AlumValue("returned", FALSE, Names(MockResults(tool, so)),
                   Len(so.profiles) = 0)

AlumInit ==
    alum = [pc |-> "idle", calls |-> 0, tool |-> "none",
            search |-> NoSearchOutcome,
            value |-> AlumValue("none", FALSE, <<>>, FALSE)]

\* The handler up to its await.
AlumCall(tool) ==
    /\ alum.pc \in {"idle", "returned"}
    /\ alum.calls < MaxAlumCalls
    /\ alum' = [pc |-> "awaiting", calls |-> alum.calls + 1, tool |-> tool,
                search |-> NoSearchOutcome,
                value |-> AlumValue("none", FALSE, <<>>, FALSE)]
    /\ UNCHANGED alumRest

\* The rest of the handler, once the search has settled as so.
AlumSettle(so) ==
    /\ alum.pc = "awaiting"
    /\ alum' = [alum EXCEPT !.pc = "returned",
                            !.search = so,
                            !.value = AlumHandler(alum.tool, so)]
    /\ UNCHANGED alumRest


(***************************************************************************)
(* Startup_Sequence                                                        *)
(***************************************************************************)
\* The palm taps made, and the seconds the clock runs.
MaxTaps == 6

MaxTime == 7

\* currentTime - timestamp <= 3
TapWindow == 3

\* this.tapTimestamps.length >= 4
TapsNeeded == 4

\* A filter that drops the taps made exactly three seconds ago.
RecentTapsStrict(timestamps, currentTime) ==
    SelectSeq(timestamps, LAMBDA t : currentTime - t < TapWindow)

\* this.tapTimestamps.filter(timestamp => currentTime - timestamp <= 3)
RecentTaps(timestamps, currentTime) ==
    SelectSeq(timestamps, LAMBDA t : currentTime - t <= TapWindow)

\* started: onStart has bound the two handlers; now: getTime(); history:
\* the time of every palm tap made, in order; printed: the last line the
\* handlers printed.
StartupInit ==
    startup = [started |-> FALSE, now |-> 0, tapTimestamps |-> <<>>,
               activated |-> FALSE, history |-> <<>>, printed |-> ""]

\* onStart: the handlers of the tap-up and tap-down events are bound.
OnStart ==
    /\ ~startup.started
    /\ startup' = [startup EXCEPT !.started = TRUE]
    /\ UNCHANGED startupRest

\* A second passes.
ClockTick ==
    /\ startup.now < MaxTime
    /\ startup' = [startup EXCEPT !.now = @ + 1]
    /\ UNCHANGED startupRest

\* print(line); this.recordTap()
RecordTap(line) ==
    LET currentTime == startup.now
        kept == RecentTaps(Append(startup.tapTimestamps, currentTime), currentTime)
    IN startup' = [startup EXCEPT
                       !.tapTimestamps = kept,
                       !.activated = @ \/ Len(kept) >= TapsNeeded,
                       !.history = Append(@, currentTime),
                       !.printed = line]

\* The handler of getPalmTapUpEvent.
PalmTapUp ==
    /\ startup.started
    /\ Len(startup.history) < MaxTaps
    /\ RecordTap("tap up")
    /\ UNCHANGED startupRest

\* The handler of getPalmTapDownEvent.
PalmTapDown ==
    /\ startup.started
    /\ Len(startup.history) < MaxTaps
    /\ RecordTap("tap down")
    /\ UNCHANGED startupRest


(***************************************************************************)
(* professor-data: the get-professor-data handler                          *)
(***************************************************************************)
\* The number of handler calls made one after the other.
MaxProfCalls == 2

\* A string is the sequence of its characters.
UpperLetters ==
    <<"A", "B", "C", "D", "E", "F", "G", "H", "I", "J", "K", "L", "M",
      "N", "O", "P", "Q", "R", "S", "T", "U", "V", "W", "X", "Y", "Z">>

LowerLetters ==
    <<"a", "b", "c", "d", "e", "f", "g", "h", "i", "j", "k", "l", "m",
      "n", "o", "p", "q", "r", "s", "t", "u", "v", "w", "x", "y", "z">>

LowerChar(c) ==
    IF \E i \in 1..Len(UpperLetters) : UpperLetters[i] = c
    THEN LowerLetters[CHOOSE i \in 1..Len(UpperLetters) : UpperLetters[i] = c]
    ELSE c

\* String.prototype.toLowerCase
ToLowerCase(str) == [i \in 1..Len(str) |-> LowerChar(str[i])]

\* String.prototype.includes
Includes(str, part) ==
    \E k \in 0..(Len(str) - Len(part)) : SubSeq(str, k + 1, k + Len(part)) = part

Professor(id, name, university, research_areas) ==
    [id |-> id, name |-> name, university |-> university,
     research_areas |-> research_areas]

Professor1 ==
    Professor(1,
        <<"D", "r", ".", " ", "E", "v", "e", "l", "y", "n", " ", "R", "e",
        "e", "d">>,
        <<"S", "t", "a", "n", "f", "o", "r", "d", " ", "U", "n", "i", "v",
        "e", "r", "s", "i", "t", "y">>,
        <<<<"A", "r", "t", "i", "f", "i", "c", "i", "a", "l", " ", "I", "n",
            "t", "e", "l", "l", "i", "g", "e", "n", "c", "e">>,
          <<"M", "a", "c", "h", "i", "n", "e", " ", "L", "e", "a", "r", "n",
            "i", "n", "g">>,
          <<"R", "o", "b", "o", "t", "i", "c", "s">>>>)

Professor2 ==
    Professor(2,
        <<"P", "r", "o", "f", "e", "s", "s", "o", "r", " ", "K", "e", "n",
        "j", "i", " ", "T", "a", "n", "a", "k", "a">>,
        <<"M", "a", "s", "s", "a", "c", "h", "u", "s", "e", "t", "t", "s",
        " ", "I", "n", "s", "t", "i", "t", "u", "t", "e", " ", "o", "f",
        " ", "T", "e", "c", "h", "n", "o", "l", "o", "g", "y">>,
        <<<<"N", "a", "t", "u", "r", "a", "l", " ", "L", "a", "n", "g", "u",
            "a", "g", "e", " ", "P", "r", "o", "c", "e", "s", "s", "i", "n",
            "g">>,
          <<"C", "o", "m", "p", "u", "t", "a", "t", "i", "o", "n", "a", "l",
            " ", "L", "i", "n", "g", "u", "i", "s", "t", "i", "c", "s">>>>)

Professor3 ==
    Professor(3,
        <<"D", "r", ".", " ", "A", "i", "s", "h", "a", " ", "K", "h", "a",
        "n">>,
        <<"U", "n", "i", "v", "e", "r", "s", "i", "t", "y", " ", "o", "f",
        " ", "C", "a", "l", "i", "f", "o", "r", "n", "i", "a", ",", " ",
        "B", "e", "r", "k", "e", "l", "e", "y">>,
        <<<<"S", "y", "n", "t", "h", "e", "t", "i", "c", " ", "B", "i", "o",
            "l", "o", "g", "y">>,
          <<"G", "e", "n", "e", "t", "i", "c", " ", "E", "n", "g", "i", "n",
            "e", "e", "r", "i", "n", "g">>,
          <<"D", "r", "u", "g", " ", "D", "e", "l", "i", "v", "e", "r", "y">>>>)

\* The hard-coded table.
Professors == <<Professor1, Professor2, Professor3>>

\* The values of input.name: {} when it is not given.
NameFilters ==
    {{},
     {<<>>},
     {<<"r", "e", "e", "d">>},
     {<<"D", "R", ".">>},
     {<<"a">>}}

\* The values of input.university: {} when it is not given.
UniversityFilters ==
    {{},
     {<<"u", "n", "i", "v", "e", "r", "s", "i", "t", "y">>},
     {<<"M", "I", "T">>},
     {<<"b", "e", "r", "k", "e", "l", "e", "y">>}}

\* The values of input.research_area: {} when it is not given.
AreaFilters ==
    {{},
     {<<>>},
     {<<"r", "o", "b", "o", "t", "i", "c", "s">>},
     {<<"M", "a", "c", "h", "i", "n", "e">>},
     {<<"S", "Y", "N", "T", "H", "E", "T", "I", "C", " ", "B", "I", "O",
          "L", "O", "G", "Y">>}}

ProfInputs ==
    [name : NameFilters, university : UniversityFilters,
     research_area : AreaFilters]

\* if (filter): an optional string is skipped when undefined or empty.
Truthy(filter) == filter # {} /\ filter # {<<>>}

\* An area test that accepts a part of an area.
AreaMatchSubstring(prof, research_area) ==
    \E i \in 1..Len(prof.research_areas) :
        Includes(ToLowerCase(prof.research_areas[i]), ToLowerCase(research_area))

\* prof.research_areas.some(area => area.toLowerCase() === research_area.toLowerCase())
AreaMatch(prof, research_area) ==
    \E i \in 1..Len(prof.research_areas) :
        ToLowerCase(prof.research_areas[i]) = ToLowerCase(research_area)

\* The callback of professors.filter.
ProfMatches(prof, input) ==
    LET nameMatch == IF Truthy(input.name)
                     THEN Includes(ToLowerCase(prof.name),
                                   ToLowerCase(The(input.name)))
                     ELSE TRUE
        uniMatch == IF Truthy(input.university)
                    THEN Includes(ToLowerCase(prof.university),
                                  ToLowerCase(The(input.university)))
                    ELSE TRUE
        areaMatch == IF Truthy(input.research_area)
                     THEN AreaMatch(prof, The(input.research_area))
                     ELSE TRUE
    IN nameMatch /\ uniMatch /\ areaMatch

ProfInit ==
    professors = [table |-> Professors, calls |-> 0,
            input |-> [name |-> {}, university |-> {}, research_area |-> {}],
            matches |-> <<>>]

\* The handler: it has no await, so it runs in one piece.
ProfHandler(input) ==
    /\ professors.calls < MaxProfCalls
    /\ professors' = [professors EXCEPT
                    !.calls = @ + 1,
                    !.input = input,
                    !.matches = SelectSeq(professors.table,
                                    LAMBDA pr : ProfMatches(pr, input))]
    /\ UNCHANGED profRest


(***************************************************************************)
(* send-linkedin-invite (the handler that extracts the identifier)         *)
(***************************************************************************)
\* The number of handler calls made one after the other.
MaxInviteCalls == 2

\* process.env.UNIPILE_API_KEY: {} when unset.
ApiKeys == {{}, {""}, {"key1"}}

\* url.pathname of the profile URLs given, as characters.
Pathnames ==
    {<<"/", "i", "n", "/", "j", "d">>,
     <<"/", "i", "n", "/", "j", "d", "/">>,
     <<"/", "i", "n">>,
     <<"/">>,
     <<"/", "c", "o", "m", "p", "a", "n", "y", "/", "j", "d">>,
     <<"/", "/", "i", "n", "/", "/", "j", "d">>,
     <<"/", "I", "n", "/", "j", "d">>,
     <<"/", "i", "n", "/", "j", "d", "/", "d", "e", "t", "a", "i", "l", "s">>,
     <<"/", "p", "u", "b", "/", "i", "n">>}

\* profile.linkedin_url: parses says whether new URL accepts it.
InviteUrl(parses, pathname) == [parses |-> parses, pathname |-> pathname]

InviteUrls ==
    {InviteUrl(FALSE, <<>>)} \cup {InviteUrl(TRUE, pn) : pn \in Pathnames}

\* String.prototype.split('/'), cur being the part read so far.
RECURSIVE SplitAt(_, _)
SplitAt(str, cur) ==
    IF str = <<>> THEN <<cur>>
    ELSE IF Head(str) = "/" THEN <<cur>> \o SplitAt(Tail(str), <<>>)
    ELSE SplitAt(Tail(str), Append(cur, Head(str)))

\* url.pathname.split('/').filter(part => part.length > 0)
PathParts(pathname) ==
    SelectSeq(SplitAt(pathname, <<>>), LAMBDA part : Len(part) > 0)

\* An extraction that takes the segment after 'in'.
LinkedinIdentifierAfterIn(url) ==
    IF ~url.parses THEN {}
    ELSE LET pathParts == PathParts(url.pathname) IN
         IF Len(pathParts) > 1 /\ pathParts[1] = <<"i", "n">>
         THEN {pathParts[2]}
         ELSE IF Len(pathParts) > 0 /\ pathParts[1] = <<"i", "n">>
         THEN {pathParts[1]}
         ELSE {}

\* The try block of the extraction: {identifier}, or {} when it throws.
LinkedinIdentifier(url) ==
    IF ~url.parses THEN {}
    ELSE LET pathParts == PathParts(url.pathname) IN
         IF Len(pathParts) > 0 /\ pathParts[1] = <<"i", "n">>
         THEN {pathParts[Len(pathParts)]}
         ELSE {}

\* How axios.post ends.
PostResults == {"2xx", "http_error", "no_response"}

InviteValue(outcome, success) == [outcome |-> outcome, success |-> success]

InviteInit ==
    invite = [pc |-> "idle", calls |-> 0, key |-> {},
              url |-> InviteUrl(FALSE, <<>>), posted |-> <<>>,
              result |-> "none",
              value |-> InviteValue("none", FALSE)]

\* The handler up to its await: the check of the key and the extraction,
\* either of which ends the call, or the POST being sent. posted holds the
\* identifier of every POST sent, result how the last one ended.
InviteCall(key, url) ==
    /\ invite.pc \in {"idle", "returned"}
    /\ invite.calls < MaxInviteCalls
    /\ IF key = {} \/ key = {""} \/ LinkedinIdentifier(url) = {}
       THEN invite' = [invite EXCEPT !.pc = "returned",
                                     !.calls = @ + 1,
                                     !.key = key,
                                     !.url = url,
                                     !.result = "none",
                                     !.value = InviteValue("returned", FALSE)]
       ELSE invite' = [invite EXCEPT !.pc = "awaiting",
                                     !.calls = @ + 1,
                                     !.key = key,
                                     !.url = url,
                                     !.posted = Append(@, The(LinkedinIdentifier(url))),
                                     !.result = "none",
                                     !.value = InviteValue("none", FALSE)]
    /\ UNCHANGED inviteRest

\* The rest of the handler, once axios.post has ended.
InviteSettle(result) ==
    /\ invite.pc = "awaiting"
    /\ invite' = [invite EXCEPT !.pc = "returned",
                                !.result = result,
                                !.value = InviteValue("returned", result = "2xx")]
    /\ UNCHANGED inviteRest

ToolInit == NetInit /\ AlumInit /\ StartupInit /\ ProfInit /\ InviteInit

\* The closure of a streamed search, as one record.
Closure(o, rs, we, t, ps, tc, p, cc, sn, rc) ==
    [options |-> o, wsReadyState |-> rs, wsError |-> we, timeoutId |-> t,
     profiles |-> ps, totalCount |-> tc, promise |-> p, closeCalls |-> cc,
     sent |-> sn, received |-> rc]

\* A search that has not been called yet.
IdleSearch ==
    Closure([maxResults |-> {}], "NONE", {}, "unset", <<>>, 0, NoPromise, 0,
            <<>>, <<>>)

PairInit == other = IdleSearch

Init == StreamInit /\ SyncInit /\ log = <<>> /\ PairInit /\ SubInit /\ ToolInit

Deliver == \E m \in Frames : OnMessage(m)

Next ==
    \/ \E mr \in MaxResultsChoices : SearchProfilesWebSocket(mr)
    \/ OnOpen
    \/ Deliver
    \/ \E e \in SocketErrors : OnError(e)
    \/ OnClose
    \/ OnTimeout

Spec == Init /\ [][Next]_vars

SyncMaxResults == {{}, {1}, {2}}

SyncNext ==
    \/ \E mr \in SyncMaxResults : SearchProfilesCall(mr)
    \/ \E resp \in Responses : SearchProfilesSettle(resp)

SyncSpec == Init /\ [][SyncNext]_vars

\* The answers the pending operation's request may end with.
SubAnswer ==
    /\ sub.pc = "awaiting"
    /\ \E resp \in SubResponses(sub.op) : SubSettle(resp)

SubNext ==
    \/ \E op \in SubOps : SubCall(op)
    \/ SubAnswer

SubSpec == Init /\ [][SubNext]_vars

NetNext ==
    \/ \E input \in NetInputs : NetCall(input)
    \/ \E resp \in NetResponses : NetSettle(resp)

NetSpec == Init /\ [][NetNext]_vars

AlumNext ==
    \/ \E tool \in AlumTools : AlumCall(tool)
    \/ \E so \in SearchOutcomes : AlumSettle(so)

AlumSpec == Init /\ [][AlumNext]_vars

StartupNext ==
    \/ OnStart
    \/ ClockTick
    \/ PalmTapUp
    \/ PalmTapDown

StartupSpec == Init /\ [][StartupNext]_vars

ProfNext == \E input \in ProfInputs : ProfHandler(input)

ProfSpec == Init /\ [][ProfNext]_vars

InviteNext ==
    \/ \E key \in ApiKeys, url \in InviteUrls : InviteCall(key, url)
    \/ \E result \in PostResults : InviteSettle(result)

InviteSpec == Init /\ [][InviteNext]_vars

\* One search invocation, of either kind, on a fresh client.
AnySearchNext ==
    \/ sync.pc = "idle" /\ Next
    \/ wsReadyState = "NONE" /\ SyncNext

AnySearchSpec == Init /\ [][AnySearchNext]_vars

(***************************************************************************)
(* Two streamed searches on one client. Each call of the method has its    *)
(* own ws, profiles, totalCount, timeoutId and promise; the method writes   *)
(* no field of the client. The variables of the streamed search are the    *)
(* closure whose handler the event loop runs next, `other` is the second   *)
(* closure, and SwitchSearch lets the event loop turn to it. The console is *)
(* the one thing both write to.                                            *)
(***************************************************************************)
\* The frames one search of a pair may receive.
MaxPairMsgs == 1

CurrentSearch ==
    Closure(options, wsReadyState, wsError, timeoutId, profiles, totalCount,
            promise, closeCalls, sent, received)

\* Two calls whose accumulated list is one array of the client.
SwitchSearchSharingProfiles ==
    /\ other' = CurrentSearch
    /\ options' = other.options
    /\ wsReadyState' = other.wsReadyState
    /\ wsError' = other.wsError
    /\ timeoutId' = other.timeoutId
    /\ totalCount' = other.totalCount
    /\ promise' = other.promise
    /\ closeCalls' = other.closeCalls
    /\ sent' = other.sent
    /\ received' = other.received
    /\ UNCHANGED <<profiles, sync, log, sub, toolVars>>

\* The event loop turns from one search's handlers to the other's.
SwitchSearch ==
    /\ other' = CurrentSearch
    /\ options' = other.options
    /\ wsReadyState' = other.wsReadyState
    /\ wsError' = other.wsError
    /\ timeoutId' = other.timeoutId
    /\ profiles' = other.profiles
    /\ totalCount' = other.totalCount
    /\ promise' = other.promise
    /\ closeCalls' = other.closeCalls
    /\ sent' = other.sent
    /\ received' = other.received
    /\ UNCHANGED <<sync, log, sub, toolVars>>

PairFrames ==
    {Frame(TRUE, "result", TRUE, {<<"p1">>}, {}, {}),
     CompleteFrame,
     Frame(TRUE, "error", TRUE, {}, {}, {"bad query"})}

PairDeliver ==
    /\ Len(received) < MaxPairMsgs
    /\ \E m \in PairFrames : OnMessage(m)

PairNext ==
    \/ SearchProfilesWebSocket({})
    \/ OnOpen
    \/ PairDeliver
    \/ OnError("ECONNREFUSED")
    \/ OnClose
    \/ OnTimeout
    \/ SwitchSearch

PairSpec == Init /\ [][PairNext]_vars

(***************************************************************************)
(* Fairness: a timer that stays armed fires, and a socket whose closing    *)
(* handshake has started ends with its 'close' event. Nothing obliges the  *)
(* server to accept the connection, to send a frame or to close.           *)
(***************************************************************************)
ClosingEnds == wsReadyState = "CLOSING" /\ OnClose

FairSpec == Spec /\ WF_vars(OnTimeout) /\ WF_vars(ClosingEnds)

(***************************************************************************)
(* What the frames received so far should have produced, computed from the *)
(* frames alone.                                                           *)
(***************************************************************************)
Settled == promise.state \in {"resolved", "rejected"}

WellFormedResult(f) == f.parses /\ f.type = "result" /\ f.hasData /\ f.results # {}

\* A frame tagged complete or error, whatever else it holds.
TerminalFrame(f) == f.parses /\ f.type \in {"complete", "error"}

RECURSIVE ConcatResults(_)
ConcatResults(fs) ==
    IF fs = <<>> THEN <<>>
    ELSE The(Head(fs).results) \o ConcatResults(Tail(fs))

\* The frames before the first `complete`.
BeforeComplete ==
    LET k == CHOOSE i \in 1..Len(received) :
                 /\ received[i] = CompleteFrame
                 /\ \A j \in 1..(i - 1) : received[j] # CompleteFrame
    IN SubSeq(received, 1, k - 1)

ResultsThenComplete ==
    /\ \E i \in 1..Len(received) : received[i] = CompleteFrame
    /\ \A i \in 1..Len(BeforeComplete) : WellFormedResult(BeforeComplete[i])

\* The total of the last result frame, read as the claim words it: the
\* server's total_count whenever the field is there.
TotalWhenAbsent(fs) ==
    IF fs = <<>> THEN 0
    ELSE IF fs[Len(fs)].total_count = {} THEN Len(ConcatResults(fs))
    ELSE The(fs[Len(fs)].total_count)

\* The same, a total_count of 0 counting as absent.
TotalWhenAbsentOrZero(fs) ==
    IF fs = <<>> THEN 0
    ELSE IF fs[Len(fs)].total_count \in {{}, {0}} THEN Len(ConcatResults(fs))
    ELSE The(fs[Len(fs)].total_count)

(***************************************************************************)
(* Claims                                                                  *)
(***************************************************************************)

\* C1: on every path on which the promise settles, ws.close() has been
\* invoked exactly once: never zero times, never more than once.
C1_CloseInvokedExactlyOnce == Settled => closeCalls = 1

\* C2: under fair delivery of the timer and of the channel's events, a
\* streamed search that is pending is eventually resolved or rejected.
C2_EveryStreamedSearchSettles == (promise.state = "pending") ~> Settled

\* C3 as stated: results frames followed by complete, the complete settling
\* the promise: the promise resolves with the concatenation of the frames'
\* results and with the last frame's total_count, or the number of profiles
\* accumulated at that frame when total_count is absent (0 with no frame).
C3_TotalIsServerTotalUnlessAbsent ==
    (promise.by = "complete" /\ ResultsThenComplete) =>
        /\ promise.state = "resolved"
        /\ promise.profilesSeen = ConcatResults(BeforeComplete)
        /\ promise.totalCount = TotalWhenAbsent(BeforeComplete)

\* C3 as amended: the same, with totalCount the last frame's total_count when
\* it is present and not 0, and otherwise the number of profiles accumulated
\* at that frame.
C3_ResolvesWithConcatenationAndTotal ==
    (promise.by = "complete" /\ ResultsThenComplete) =>
        /\ promise.state = "resolved"
        /\ promise.profilesSeen = ConcatResults(BeforeComplete)
        /\ promise.totalCount = TotalWhenAbsentOrZero(BeforeComplete)

\* C3's case: two non-empty result frames, the last with total_count 0, then
\* complete, which resolved the promise.
C3_Witness ==
    /\ promise.by = "complete"
    /\ ResultsThenComplete
    /\ Len(BeforeComplete) = 2
    /\ BeforeComplete[1].results = {<<"p1">>}
    /\ BeforeComplete[2].results = {<<"p2", "p3">>}
    /\ BeforeComplete[2].total_count = {0}

\* C4: a search that gets neither a complete nor an error frame (and no
\* socket error) ends resolved by its deadline, with the profiles accumulated
\* so far and totalCount their number.
C4_DeadlineResolvesWithAccumulated ==
    (promise.state = "pending") ~>
        \/ \E i \in 1..Len(received) : TerminalFrame(received[i])
        \/ wsError # {}
        \/ /\ promise.state = "resolved"
           /\ promise.by = "timeout"
           /\ promise.totalCount = Len(promise.profilesSeen)

\* C5: an `error` frame that arrives while the promise is pending rejects it
\* with the frame's message text, whatever was accumulated before.
C5_ErrorFrameRejectsWithServerText ==
    [][\A m \in ErrorFrames :
         (promise.state = "pending" /\ received' = Append(received, m)) =>
             /\ promise'.state = "rejected"
             /\ promise'.reason = The(m.message)]_vars

\* C5's case: rejected by an error frame after profiles were accumulated.
C5_Witness ==
    /\ promise.state = "rejected"
    /\ promise.by = "errormsg"
    /\ promise.reason = "bad query"
    /\ Len(profiles) >= 2

\* C6: the socket's 'error' event, coming while the promise is pending,
\* rejects it with that error: it is neither resolved nor left pending.
C6_SocketErrorRejects ==
    [][\A e \in SocketErrors :
         (promise.state = "pending" /\ wsError = {} /\ wsError' = {e}) =>
             /\ promise'.state = "rejected"
             /\ promise'.reason = e]_vars

\* C6's case: the socket failed before any frame, and the promise is rejected.
C6_Witness ==
    /\ received = <<>>
    /\ wsError = {"ECONNREFUSED"}
    /\ promise.state = "rejected"
    /\ promise.by = "socketerror"

\* C7: a malformed frame changes nothing: not the profiles, the running
\* total, the promise, the timer, the socket or the count of close calls.
C7_MalformedFrameIsDropped ==
    [][\A m \in MalformedFrames :
         received' = Append(received, m) =>
             UNCHANGED <<profiles, totalCount, promise, timeoutId,
                         wsReadyState, closeCalls>>]_vars

\* C8: what searchProfiles returns has at most maxResults (10 when not
\* given) profiles, and a totalCount of at least their number.
C8_SyncResultWithinLimit ==
    sync.pc = "returned" =>
        /\ Len(sync.value.profiles) <= Limit(sync.maxResults)
        /\ sync.value.totalCount >= Len(sync.value.profiles)

\* C9: what a streamed search resolves with has at most maxResults (10 when
\* not given) profiles, and a totalCount of at least their number.
C9_StreamedResultWithinLimit ==
    promise.state = "resolved" =>
        /\ Len(promise.profilesSeen) <= Limit(options.maxResults)
        /\ promise.totalCount >= Len(promise.profilesSeen)

\* C10: searchProfiles never throws, and on an HTTP error status, a network
\* failure, a timeout or a payload that is no JSON object it returns the
\* empty SearchResult.
C10_SyncSearchNeverThrows ==
    sync.pc = "returned" =>
        /\ sync.outcome = "returned"
        /\ (sync.response.kind # "ok" \/ sync.response.body # "object") =>
               sync.value = EmptyResult

\* C10's case: a 401 answered the request, and the call returned.
C10_Witness ==
    /\ sync.pc = "returned"
    /\ sync.response.kind = "http_error"
    /\ sync.response.status = 401
    /\ sync.outcome = "returned"

(***************************************************************************)
(* Claims about searchProfiles: its log, its failures, its requests.       *)
(***************************************************************************)
Returned == sync.pc = "returned"

Is401 == sync.response.kind = "http_error" /\ sync.response.status = 401

\* A 2xx answer whose body is no JSON object.
MalformedPayload == sync.response.kind = "ok" /\ sync.response.body # "object"

TransportFailure == sync.response.kind \in {"network", "timeout"}

LastLine == IF log = <<>> THEN "" ELSE log[Len(log)]

\* C11: a 401 makes searchProfiles return the empty result without throwing,
\* and the authentication line is the last line written exactly when the
\* answer was a 401: no other failure and no success writes it.
C11_AuthFailureLoggedDistinctly ==
    Returned =>
        /\ Is401 => (sync.outcome = "returned" /\ sync.value = EmptyResult)
        /\ (LastLine = "auth_failed") <=> Is401

\* C11's case: a second call answered 401 after a first one answered 500.
C11_Witness ==
    /\ Returned
    /\ Is401
    /\ sync.calls = 2
    /\ log = <<"request", "api_error", "request", "api_error", "auth_failed">>

\* C12 as stated: an authentication failure or a malformed payload ends in a
\* thrown error, and every other failure in the empty result.
C12_AuthAndMalformedAreThrown ==
    Returned =>
        /\ (Is401 \/ MalformedPayload) => sync.outcome = "threw"
        /\ (sync.response.kind # "ok" /\ ~Is401) =>
               (sync.outcome = "returned" /\ sync.value = EmptyResult)

\* C12 as amended: on the synchronous path an authentication failure and a
\* malformed payload are not thrown either: both end, like every other
\* failure, in the returned empty result.
C12_AuthAndMalformedAreNormalized ==
    Returned =>
        /\ (Is401 \/ MalformedPayload) =>
               (sync.outcome = "returned" /\ sync.value = EmptyResult)
        /\ (sync.response.kind # "ok" /\ ~Is401) =>
               (sync.outcome = "returned" /\ sync.value = EmptyResult)

\* C12's case: a 200 whose body is text, answered with the empty result.
C12_Witness ==
    /\ Returned
    /\ MalformedPayload
    /\ sync.response.body = "text"
    /\ sync.outcome = "returned"
    /\ LastLine = "unexpected_error"

C14_FailedRequestsAreRetried ==
    (Returned /\ TransportFailure) => sync.requests > sync.calls

\* C20: a 2xx answer with a JSON object is mapped field by field: profiles
\* the results (empty when absent), totalCount the total_count when there is
\* one (a 0 counting as none) and else the number of results,
\* queryExecutionTime the execution_time when there is one and else 0.
C20_SuccessfulResponseIsMapped ==
    (Returned /\ sync.response.kind = "ok" /\ sync.response.body = "object") =>
        LET results == IF sync.response.results = {} THEN <<>>
                       ELSE The(sync.response.results)
        IN /\ sync.value.profiles = results
           /\ sync.value.totalCount =
                  IF sync.response.total_count \in {{}, {0}} THEN Len(results)
                  ELSE The(sync.response.total_count)
           /\ sync.value.queryExecutionTime =
                  IF sync.response.execution_time = {} THEN 0
                  ELSE The(sync.response.execution_time)

(***************************************************************************)
(* Claims about the streamed search's channel, result and log.             *)
(***************************************************************************)
\* How many lines of the kinds in S the console holds.
Lines(S) == Cardinality({i \in 1..Len(log) : log[i] \in S})

\* How many of the frames received satisfy P.
FramesWhere(P(_)) == Cardinality({i \in 1..Len(received) : P(received[i])})

\* C15: a streamed search sends at most one message, none before the
\* socket's open event and exactly one from it on, and that message is the
\* query {type: "query", data, apiKey} carrying the call's limit.
C15_OneQueryAfterOpen ==
    /\ Len(sent) <= 1
    /\ wsReadyState \in {"NONE", "CONNECTING"} => sent = <<>>
    /\ Len(sent) = Lines({"ws_open"})
    /\ wsReadyState = "OPEN" => Len(sent) = 1
    /\ \A i \in 1..Len(sent) :
           sent[i] = [type |-> "query",
                      data |-> [limit |-> IF options.maxResults = {} THEN 10
                                          ELSE The(options.maxResults)],
                      apiKey |-> "this.apiKey"]

\* C15's case: the socket opened, delivered frames and closed, and the one
\* query is all that was sent.
C15_Witness ==
    /\ wsReadyState = "CLOSED"
    /\ Len(received) >= 2
    /\ Len(sent) = 1
    /\ sent[1].data.limit = 1

\* C17: once the promise has resolved, no later event changes the
\* SearchResult the caller holds.
C17_ResolvedValueNeverChanges ==
    [][promise.state = "resolved" => ResolvedValue' = ResolvedValue]_vars

IsWellFormedError(f) == f.parses /\ f.type = "error" /\ f.hasData

IsComplete(f) == f.parses /\ f.type = "complete"

\* A frame the handler's try block throws on.
IsDropped(f) ==
    \/ ~f.parses
    \/ f.type = "result" /\ (~f.hasData \/ f.results = {})
    \/ f.type = "error" /\ ~f.hasData

\* C19: every invocation has written a line for its request, one error line
\* for every error it met (timeout, socket error, server error frame,
\* malformed frame, failed HTTP call) and one line for every completion.
C19_EveryRequestErrorAndCompletionLogged ==
    /\ promise.state # "none" => Lines({"ws_start"}) = 1
    /\ Lines({"ws_timeout"}) = (IF timeoutId = "fired" THEN 1 ELSE 0)
    /\ Lines({"ws_socket_error"}) = Cardinality(wsError)
    /\ Lines({"ws_server_error"}) = FramesWhere(IsWellFormedError)
    /\ Lines({"ws_parse_error"}) = FramesWhere(IsDropped)
    /\ Lines({"ws_completed"}) = FramesWhere(IsComplete)
    /\ Lines({"request"}) = sync.calls
    /\ Returned =>
           IF sync.response.kind = "ok"
           THEN LastLine \in {"found", "unexpected_error"}
           ELSE LastLine \in {"api_error", "auth_failed"}
    /\ (Returned /\ sync.value # EmptyResult) => LastLine = "found"
    /\ Lines({"found", "api_error", "unexpected_error"}) =
           sync.calls - (IF sync.pc = "awaiting" THEN 1 ELSE 0)

\* C19's case: a streamed search that met a malformed frame, a server error
\* frame and then a socket error, each with its line.
C19_Witness ==
    /\ promise.by = "errormsg"
    /\ wsError # {}
    /\ FramesWhere(IsDropped) = 1
    /\ Lines({"ws_parse_error"}) = 1
    /\ Lines({"ws_server_error"}) = 1
    /\ Lines({"ws_socket_error"}) = 1

\* C19's other case: a searchProfiles call that failed, with its lines.
C19_WitnessSync ==
    /\ Returned
    /\ log = <<"request", "api_error">>

(***************************************************************************)
(* Claims about two streamed searches at once.                             *)
(***************************************************************************)
\* A frame that settles a pending promise.
IsSettling(f) == IsComplete(f) \/ IsWellFormedError(f)

\* The frames of a search before the first one that settles.
BeforeSettling(rc) ==
    IF \E i \in 1..Len(rc) : IsSettling(rc[i])
    THEN SubSeq(rc, 1, (CHOOSE i \in 1..Len(rc) :
                           /\ IsSettling(rc[i])
                           /\ \A j \in 1..(i - 1) : ~IsSettling(rc[j])) - 1)
    ELSE rc

\* The closure c holds what its own socket's events and its own timer make
\* of it, and nothing else.
SearchConsistent(c) ==
    LET own == SelectSeq(c.received, WellFormedResult)
        seen == SelectSeq(BeforeSettling(c.received), WellFormedResult)
        settling == c.received[Len(BeforeSettling(c.received)) + 1]
    IN /\ c.profiles = ConcatResults(own)
       /\ c.totalCount = TotalWhenAbsentOrZero(own)
       /\ (c.promise.state = "none") <=> (c.wsReadyState = "NONE")
       /\ (c.promise.state = "none") <=> (c.timeoutId = "unset")
       /\ Len(c.sent) <= 1
       /\ c.received # <<>> => Len(c.sent) = 1
       /\ c.promise.state = "pending" =>
              /\ BeforeSettling(c.received) = c.received
              /\ c.wsError = {}
              /\ c.timeoutId # "fired"
       /\ c.promise.by = "timeout" =>
              /\ c.timeoutId = "fired"
              /\ c.promise.state = "resolved"
              /\ c.promise.totalCount = Len(c.promise.profilesSeen)
              /\ \E k \in 0..Len(seen) :
                     c.promise.profilesSeen = ConcatResults(SubSeq(seen, 1, k))
       /\ c.promise.by = "socketerror" =>
              /\ c.promise.state = "rejected"
              /\ c.promise.reason \in c.wsError
       /\ c.promise.by = "complete" =>
              /\ BeforeSettling(c.received) # c.received
              /\ IsComplete(settling)
              /\ c.promise.state = "resolved"
              /\ c.promise.profilesSeen = ConcatResults(seen)
              /\ c.promise.totalCount = TotalWhenAbsentOrZero(seen)
       /\ c.promise.by = "errormsg" =>
              /\ BeforeSettling(c.received) # c.received
              /\ IsWellFormedError(settling)
              /\ c.promise.state = "rejected"
              /\ c.promise.reason = The(settling.message)

\* C16: of two streamed searches at once, each holds the profiles, total,
\* timer and outcome that its own socket's events and timer determine, and
\* no handler of one changes anything of the other.
C16_ConcurrentSearchesIndependent ==
    /\ [](SearchConsistent(CurrentSearch) /\ SearchConsistent(other))
    /\ [][\/ other' = other
          \/ other' = CurrentSearch /\ CurrentSearch' = other]_vars

\* C16's case: both searches were open at once and ended differently, one
\* resolved by its timer with the profile of its own result frame and the
\* other rejected by its own error frame with nothing accumulated.
C16_Witness ==
    /\ promise.by = "timeout"
    /\ promise.profilesSeen = <<"p1">>
    /\ other.promise.by = "errormsg"
    /\ other.profiles = <<>>
    /\ \E i, j \in 1..Len(log) :
          /\ i < j
          /\ log[i] = "ws_open"
          /\ log[j] = "ws_open"
          /\ \A k \in 1..j : log[k] \notin {"ws_frame", "ws_closed", "ws_timeout"}

(***************************************************************************)
(* Claims about the subordinate operations.                                *)
(***************************************************************************)
\* C18: getProfileDetails, findMutualConnections and requestIntroduction
\* send one request per call and never throw; a call answered with its
\* payload returns that payload, and a call that failed (or whose answer has
\* no payload) returns null, the empty list and false respectively.
C18_SubordinateOperationsAreSafe ==
    /\ sub.requests = sub.calls
    /\ sub.pc = "returned" =>
           /\ sub.outcome = "returned"
           /\ IF /\ sub.response.kind = "ok"
                 /\ sub.response.body = "object"
                 /\ sub.response.payload # "undefined"
              THEN sub.value = sub.response.payload
              ELSE /\ sub.op = "getProfileDetails" => sub.value = "null"
                   /\ sub.op = "findMutualConnections" => sub.value = "[]"
                   /\ sub.op = "requestIntroduction" => sub.value = "false"

\* C18's case: a second call, of findMutualConnections, whose request failed
\* on the network and which returned the empty list.
C18_Witness ==
    /\ sub.pc = "returned"
    /\ sub.calls = 2
    /\ sub.requests = 2
    /\ sub.op = "findMutualConnections"
    /\ sub.response.kind = "network"
    /\ sub.value = "[]"

(***************************************************************************)
(* Claims about the deadline of the streamed search.                       *)
(***************************************************************************)
\* C21: the deadline runs from the socket's open event: the promise is
\* resolved by the timer only on a socket that has opened.
C21_DeadlineRunsFromOpen ==
    promise.by = "timeout" => (Opened /\ Lines({"ws_open"}) = 1)

(***************************************************************************)
(* Claims about the networking service.                                    *)
(***************************************************************************)
NetReturned == net.pc = "returned"

\* The results of the answer, <<>> when there are none to read.
NetResults ==
    IF net.response.kind = "ok" /\ net.response.results # {}
    THEN The(net.response.results) ELSE <<>>

\* The call failed: a required field was missing, the search failed or its
\* answer had no results array, or the results were too few for the action.
NetFailure ==
    \/ net.input.action = "other"
    \/ net.input.action = "recommendations" /\ net.input.query \in {{}, {""}}
    \/ net.input.action = "ask_alum"
           /\ (net.input.question = {} \/ net.input.studentProfile = {})
    \/ net.input.action = "connect_bruins" /\ net.input.interests = {}
    \/ net.response.kind # "ok"
    \/ net.response.results = {}
    \/ net.input.action = "ask_alum" /\ Len(NetResults) = 0
    \/ net.input.action = "connect_bruins" /\ Len(NetResults) < 2

\* C22: the handler always returns a response, and every failure's response
\* has empty data and the text 'Sorry, there was an error processing your
\* request'; no success has that text.
C22_HandlerAlwaysReturnsResponse ==
    NetReturned =>
        /\ net.value.outcome = "returned"
        /\ NetFailure =>
               /\ net.value.text = "Sorry, there was an error processing your request"
               /\ net.value.data = NetData({}, {}, {}, {})
        /\ ~NetFailure =>
               /\ net.value.text # "Sorry, there was an error processing your request"
               /\ net.value.data # NetData({}, {}, {}, {})

\* C22's case: a second call whose search was answered 401.
C22_Witness ==
    /\ NetReturned
    /\ net.calls = 2
    /\ net.response.kind = "http_error"
    /\ net.response.status = 401
    /\ net.value.detail = "Invalid or expired API key"
    /\ net.value.data = EmptyData

\* The input of a call lacks a field its action requires.
MissingRequired(input) ==
    \/ input.action = "recommendations" /\ input.query = {}
    \/ input.action = "ask_alum"
           /\ (input.question = {} \/ input.studentProfile = {})
    \/ input.action = "connect_bruins" /\ input.interests = {}

\* C23: a call whose action's required field is missing returns the error
\* response at once and sends no search request.
C23_RequiredFieldsCheckedBeforeSearch ==
    [][(net'.calls = net.calls + 1 /\ MissingRequired(net'.input)) =>
           /\ net'.requests = net.requests
           /\ net'.searches = net.searches
           /\ net'.pc = "returned"
           /\ net'.value.text = ErrorText
           /\ net'.value.data = EmptyData]_vars

\* C23's case: after a call that searched, a connect_bruins call without
\* interests returned the error response with no further request.
C23_Witness ==
    /\ NetReturned
    /\ net.calls = 2
    /\ net.requests = 1
    /\ net.input.action = "connect_bruins"
    /\ net.input.interests = {}
    /\ net.value.detail = "Interests are required for connecting Bruins"

\* The input has the fields its action requires and the search returned
\* its results.
NetSearched ==
    /\ NetReturned
    /\ ~MissingRequired(net.input)
    /\ net.response.kind = "ok"
    /\ net.response.results # {}

\* C24: connect_bruins returns exactly the first two results, in server
\* order, and the error response for fewer than two; ask_alum returns the
\* first result with questionSent true, and the error response for none.
C24_MatchesAreTheFirstResults ==
    /\ (NetSearched /\ net.input.action = "connect_bruins") =>
           IF Len(NetResults) >= 2
           THEN /\ net.value.data.matchedBruins # {}
                /\ LET m == The(net.value.data.matchedBruins) IN
                       /\ Len(m) = 2
                       /\ m[1].name = NetResults[1].name
                       /\ m[2].name = NetResults[2].name
                /\ net.value.data.matchedAlum = {}
           ELSE /\ net.value.text = ErrorText
                /\ net.value.data.matchedBruins = {}
    /\ (NetSearched /\ net.input.action = "ask_alum") =>
           IF Len(NetResults) >= 1
           THEN /\ net.value.data.matchedAlum # {}
                /\ The(net.value.data.matchedAlum).name = NetResults[1].name
                /\ net.value.data.questionSent = {TRUE}
                /\ net.value.data.matchedBruins = {}
           ELSE /\ net.value.text = ErrorText
                /\ net.value.data.matchedAlum = {}
                /\ net.value.data.questionSent = {}

\* C24's case: connect_bruins answered with three results, of which the
\* first two are matched.
C24_Witness ==
    /\ NetSearched
    /\ net.input.action = "connect_bruins"
    /\ Len(NetResults) = 3
    /\ The(net.value.data.matchedBruins)[1].name = "u3"
    /\ The(net.value.data.matchedBruins)[2].name = "u2"

\* searchUsers has failed.
SearchFailed == NetReturned /\ net.response.kind \notin {"ok", "none"}

\* C25 as stated: searchUsers sends one request and throws on every failure:
\* the key text for a 401, the body's error, detail or message text for any
\* other error response with a body, and the generic text otherwise.
C25_ThrowsServerTextForAnyBody ==
    /\ net.requests = net.searches
    /\ SearchFailed =>
           /\ net.search.threw
           /\ net.search.results = {}
           /\ IF net.response.kind = "http_error" /\ net.response.status = 401
              THEN net.search.message = "Invalid or expired API key"
              ELSE IF net.response.kind = "http_error" /\ net.response.body.present
              THEN net.search.message \in
                       net.response.body.error \cup net.response.body.detail
                           \cup net.response.body.message
              ELSE net.search.message =
                       "Failed to perform search. Please check your connection and try again."

\* C25 as amended: the same, the text for an error response with a body
\* being the first non-empty of its error, detail and message fields, and
\* the JSON text of the body when it has none of them.
C25_ThrowsFirstServerTextOrJson ==
    /\ net.requests = net.searches
    /\ SearchFailed =>
           /\ net.search.threw
           /\ net.search.results = {}
           /\ IF net.response.kind = "http_error" /\ net.response.status = 401
              THEN net.search.message = "Invalid or expired API key"
              ELSE IF net.response.kind = "http_error" /\ net.response.body.present
              THEN LET b == net.response.body IN
                   net.search.message =
                       IF b.error \notin {{}, {""}} THEN The(b.error)
                       ELSE IF b.detail \notin {{}, {""}} THEN The(b.detail)
                       ELSE IF b.message \notin {{}, {""}} THEN The(b.message)
                       ELSE "JSON.stringify(data)"
              ELSE net.search.message =
                       "Failed to perform search. Please check your connection and try again."

\* C25's case: a 500 whose body has an empty error and no detail or message,
\* thrown as the body's JSON text.
C25_Witness ==
    /\ SearchFailed
    /\ net.response.status = 500
    /\ net.response.body = ErrorBody(TRUE, {""}, {}, {})
    /\ net.search.message = "JSON.stringify(data)"
    /\ net.requests = 1

(***************************************************************************)
(* Claims about the alumni tools.                                          *)
(***************************************************************************)
\* C26: an alumni tool handler never throws; when the search resolves it
\* lists the three mock profiles if the search found none and the server's
\* profiles otherwise, so that its list is empty only when the search
\* rejects.
C26_MockExactlyWhenNoProfiles ==
    alum.pc = "returned" =>
        /\ alum.value.outcome = "returned"
        /\ alum.search.state = "resolved" =>
               /\ alum.value.list # <<>>
               /\ alum.value.mock <=> (alum.search.profiles = <<>>)
               /\ alum.search.profiles # <<>> =>
                      alum.value.list = Names(alum.search.profiles)
               /\ alum.search.profiles = <<>> => Len(alum.value.list) = 3
        /\ alum.value.list = <<>> => alum.search.state = "rejected"

(***************************************************************************)
(* Claims about Startup_Sequence.                                          *)
(***************************************************************************)
\* How many of the first i taps lie within the three seconds ending at
\* tap i.
TapsWithinWindowAt(i) ==
    Cardinality({j \in 1..i : startup.history[i] - startup.history[j] <= 3})

\* C27: tapTimestamps holds exactly the taps no older than 3 seconds before
\* the latest tap; activated is true exactly when at some tap at least 4
\* taps lay within the 3 seconds ending at it; and activated, once true,
\* stays true.
C27_ActivatedByFourTapsInThreeSeconds ==
    /\ [](LET h == startup.history IN
          /\ startup.tapTimestamps =
                 SelectSeq(h, LAMBDA t : h[Len(h)] - t <= 3)
          /\ startup.activated <=>
                 \E i \in 1..Len(h) : TapsWithinWindowAt(i) >= 4)
    /\ [][startup.activated => startup'.activated]_vars

\* C27's case: activated by four taps, and still so after a later tap whose
\* window holds that tap alone.
C27_Witness ==
    /\ startup.activated
    /\ Len(startup.history) = 5
    /\ Len(startup.tapTimestamps) = 1
    /\ startup.history[4] - startup.history[1] = 3

(***************************************************************************)
(* Claims about get-professor-data.                                        *)
(***************************************************************************)
\* Professor p passes the filters of the last call; given(f) says whether
\* the filter f counts as supplied.
PassesFilters(p, given(_)) ==
    /\ given(professors.input.name) =>
           Includes(ToLowerCase(p.name), ToLowerCase(The(professors.input.name)))
    /\ given(professors.input.university) =>
           Includes(ToLowerCase(p.university),
                    ToLowerCase(The(professors.input.university)))
    /\ given(professors.input.research_area) =>
           \E i \in 1..Len(p.research_areas) :
               ToLowerCase(p.research_areas[i]) =
                   ToLowerCase(The(professors.input.research_area))

Supplied(f) == f # {}

SuppliedAndNotEmpty(f) == f # {} /\ f # {<<>>}

\* C28 as stated: the handler returns, in stored order, exactly the
\* professors that pass every filter supplied, all of them when none is
\* supplied, and leaves the table as it is.
C28_ReturnsExactlyMatchesOfSuppliedFilters ==
    /\ professors.table = Professors
    /\ professors.calls > 0 =>
           professors.matches =
               SelectSeq(Professors, LAMBDA p : PassesFilters(p, Supplied))

\* C28 as amended: the same, a filter given as the empty string counting as
\* not supplied.
C28_ReturnsExactlyMatchesOfNonEmptyFilters ==
    /\ professors.table = Professors
    /\ professors.calls > 0 =>
           /\ professors.matches =
                  SelectSeq(Professors,
                            LAMBDA p : PassesFilters(p, SuppliedAndNotEmpty))
           /\ (\A f \in {professors.input.name, professors.input.university,
                         professors.input.research_area} : ~SuppliedAndNotEmpty(f))
                  => professors.matches = Professors

\* C28's case: a second call with research_area "" and name "a", which
\* returned the second and third professors.
C28_Witness ==
    /\ professors.calls = 2
    /\ professors.input.research_area = {<<>>}
    /\ professors.input.name = {<<"a">>}
    /\ professors.input.university = {}
    /\ professors.matches = <<Professor2, Professor3>>

(***************************************************************************)
(* Claims about send-linkedin-invite.                                      *)
(***************************************************************************)
\* The number of slashes pathname starts with.
LeadingSlashes(pathname) ==
    IF \A i \in 1..Len(pathname) : pathname[i] = "/" THEN Len(pathname)
    ELSE (CHOOSE i \in 1..Len(pathname) :
              /\ pathname[i] # "/"
              /\ \A j \in 1..(i - 1) : pathname[j] = "/") - 1

\* The URL has a path whose first segment is 'in'.
BeginsWithIn(url) ==
    /\ url.parses
    /\ LET k == LeadingSlashes(url.pathname)
           n == Len(url.pathname)
       IN /\ n >= k + 2
          /\ url.pathname[k + 1] = "i"
          /\ url.pathname[k + 2] = "n"
          /\ n = k + 2 \/ url.pathname[k + 3] = "/"

\* The last non-empty segment of a path that has one.
LastSegment(pathname) ==
    LET e == CHOOSE i \in 1..Len(pathname) :
                 /\ pathname[i] # "/"
                 /\ \A j \in (i + 1)..Len(pathname) : pathname[j] = "/"
        b == CHOOSE i \in 0..e :
                 /\ i = 0 \/ pathname[i] = "/"
                 /\ \A j \in (i + 1)..e : pathname[j] # "/"
    IN SubSeq(pathname, b + 1, e)

\* C29: the handler never throws; a call without the API key, or with a URL
\* whose path does not begin with the segment 'in', returns success false and
\* sends nothing; any other call sends one POST, with the last non-empty
\* path segment as identifier, and returns success true exactly when that
\* POST succeeds.
C29_OnePostWithLastSegment ==
    /\ [][invite'.calls = invite.calls + 1 =>
             IF invite'.key \in {{}, {""}} \/ ~BeginsWithIn(invite'.url)
             THEN /\ invite'.posted = invite.posted
                  /\ invite'.pc = "returned"
                  /\ invite'.value = [outcome |-> "returned", success |-> FALSE]
             ELSE /\ invite'.posted =
                         Append(invite.posted, LastSegment(invite'.url.pathname))
                  /\ invite'.pc = "awaiting"]_vars
    /\ [][invite'.calls = invite.calls => invite'.posted = invite.posted]_vars
    /\ [](invite.pc = "returned" =>
              /\ invite.value.outcome = "returned"
              /\ invite.value.success <=> invite.result = "2xx")

\* C29's case: after a call that sent nothing, a call for /in/jd/details
\* posted the identifier details and succeeded.
C29_Witness ==
    /\ invite.pc = "returned"
    /\ invite.calls = 2
    /\ invite.url.pathname = <<"/", "i", "n", "/", "j", "d", "/", "d", "e", "t", "a", "i", "l", "s">>
    /\ invite.posted = <<<<"d", "e", "t", "a", "i", "l", "s">>>>
    /\ invite.value.success

====
